---- MODULE Spec2Model ----
(***************************************************************************)
(* Model of the process-discovery and core-dump part of src/src/env.cpp    *)
(* (processFilename, runningProcessesIds, runningProcesses, findOtherPid,  *)
(* tempDir, tempFile, dumpFile, createMiniDump, coredump, coredumpOther).  *)
(*                                                                         *)
(* The program is sequential.  Every action below is the code that runs    *)
(* around one call into the OS; the OS's answer is drawn with \E from the  *)
(* answers that call can give.  Wide strings are sequences of characters.  *)
(***************************************************************************)
EXTENDS Integers, Sequences, FiniteSets, TLC

(***************************************************************************)
(* Bounds of the model.                                                    *)
(***************************************************************************)
\* longest list of process ids the OS reports in one enumeration
MaxProcs == 3
\* process ids are 0..MaxPid
MaxPid == 3

(***************************************************************************)
(* Platform constants.                                                     *)
(***************************************************************************)
\* DWORD values are kept as plain integers: the largest one the program
\* computes is the byte size of 300 * 2^10 ids, far below 2^32
MAX_PATH == 260
SizeofDWORD == 4
NullHandle == 0
INVALID_HANDLE_VALUE == -1

\* GetLastError() values the code tells apart
ERROR_SUCCESS == "ERROR_SUCCESS"
ERROR_ACCESS_DENIED == "ERROR_ACCESS_DENIED"
ERROR_FILE_EXISTS == "ERROR_FILE_EXISTS"
ERROR_INVALID_PARAMETER == "ERROR_INVALID_PARAMETER"
ERROR_INSUFFICIENT_BUFFER == "ERROR_INSUFFICIENT_BUFFER"

(***************************************************************************)
(* HandlePtr.  A HandlePtr built from an OS return value holds that value; *)
(* `return {}` builds the empty HandlePtr, which holds the null handle     *)
(* (the value `!h` tests at lines 235, 407 and 466), not                   *)
(* INVALID_HANDLE_VALUE.                                                   *)
(***************************************************************************)
HandlePtrEmpty == NullHandle

\* operator bool of a HandlePtr
HandlePtrBool_Always(h) == TRUE
HandlePtrBool(h) == h # NullHandle

\* handle values the OS gives out: one per process id, one for the pseudo
\* handle of GetCurrentProcess(), one for a created file
ProcHandle(pid) == 100 + pid
CurrentProcessPseudoHandle == -1
FileHandle == 200

\* leaving the scope of a HandlePtr: the owned handle, if any, is closed
HandlePtrRelease(h, open) ==
  IF h # NullHandle /\ h # INVALID_HANDLE_VALUE THEN open \ {h} ELSE open

\* the number of CloseHandle calls that makes
HandlePtrCloses(h) ==
  IF h # NullHandle /\ h # INVALID_HANDLE_VALUE THEN 1 ELSE 0

(***************************************************************************)
(* Strings.                                                                *)
(***************************************************************************)
defaultName ==
  <<"M","o","d","O","r","g","a","n","i","z","e","r",".","e","x","e">>
LowerName ==
  <<"m","o","d","o","r","g","a","n","i","z","e","r",".","e","x","e">>
OtherName == <<"m","o",".","e","x","e">>
RootDir == <<"C",":","\\">>

\* what GetModuleFileNameW can write for the current process (full paths)
SelfPaths == { RootDir \o defaultName, RootDir \o OtherName }
\* what GetModuleBaseNameW can write for another process (base names)
BaseNames == { defaultName, LowerName, OtherName }

IsSeparator(c) == c = "\\" \/ c = "/"

\* std::filesystem::path::filename(): what follows the root name and the
\* last directory separator
LastSeparator(s, n) ==
  LET at == { k \in 1..n : IsSeparator(s[k]) }
  IN IF at = {} THEN 0 ELSE CHOOSE k \in at : \A j \in at : j <= k

StripRootName(s) ==
  IF Len(s) >= 2 /\ s[2] = ":" THEN SubSeq(s, 3, Len(s)) ELSE s

PathFilename(s) ==
  LET rel == StripRootName(s)
      k == LastSeparator(rel, Len(rel))
  IN SubSeq(rel, k + 1, Len(rel))

DigitChar(d) ==
  CASE d = 0 -> "0" [] d = 1 -> "1" [] d = 2 -> "2" [] d = 3 -> "3"
    [] d = 4 -> "4" [] d = 5 -> "5" [] d = 6 -> "6" [] d = 7 -> "7"
    [] d = 8 -> "8" [] d = 9 -> "9"

\* std::to_wstring / operator<< of a non-negative integer
RECURSIVE ToWString(_)
ToWString(n) ==
  IF n < 10 THEN <<DigitChar(n)>>
  ELSE ToWString(n \div 10) \o <<DigitChar(n % 10)>>

\* std::setw(w) with fill character c: pad on the left up to width w
RECURSIVE SetW(_, _, _)
SetW(s, w, c) == IF Len(s) >= w THEN s ELSE SetW(<<c>> \o s, w, c)

(***************************************************************************)
(* processFilename: one frame per invocation.                              *)
(*   calls, lastCap and how are bookkeeping: the number of OS calls made,  *)
(*   the capacity passed to the last one, and how the invocation ended     *)
(*   ("returned": line 163, "failed": line 177).                           *)
(***************************************************************************)
ProcessFilenameMaxTries == 10

PfIdle ==
  [ process |-> INVALID_HANDLE_VALUE, bufferSize |-> MAX_PATH, tries |-> 0,
    writtenSize |-> 0, calls |-> 0, lastCap |-> 0, ret |-> <<>>,
    how |-> "idle" ]

PfStart(process) == [PfIdle EXCEPT !.process = process, !.how = "running"]

\* Answers of GetModuleFileNameW (process = INVALID_HANDLE_VALUE) and of
\* GetModuleBaseNameW: a hard failure, a name that does not fit in the
\* buffer, or a name that fits.
ModuleNameResponses(process, bufferSize) ==
  { [kind |-> "fail", text |-> <<>>], [kind |-> "long", text |-> <<>>] }
  \cup { [kind |-> "fits", text |-> p] :
           p \in { q \in (IF process = INVALID_HANDLE_VALUE
                          THEN SelfPaths ELSE BaseNames) :
                     Len(q) < bufferSize } }

\* the return value of the OS call: 0 on failure, the buffer size when the
\* name was truncated, else the length of the name
ModuleNameWritten(r, bufferSize) ==
  CASE r.kind = "fail" -> 0
    [] r.kind = "long" -> bufferSize
    [] OTHER -> Len(r.text)

\* the first n characters of the buffer after the call
ModuleNameBuffer(r, n) ==
  IF r.kind = "fits" THEN SubSeq(r.text, 1, n) ELSE [k \in 1..n |-> "x"]

\* line 149: the OS call failed
HardFailure_Ignored(writtenSize) == FALSE
HardFailure(writtenSize) == writtenSize = 0

\* line 154: the buffer was too small
BufferTooSmall_Strict(writtenSize, bufferSize) == writtenSize > bufferSize
BufferTooSmall(writtenSize, bufferSize) == writtenSize >= bufferSize

\* one iteration of the loop of lines 134-165, and what follows the loop
processFilenameStep(f, r) ==
  LET writtenSize == ModuleNameWritten(r, f.bufferSize)
      g == [f EXCEPT !.writtenSize = writtenSize, !.calls = @ + 1,
                     !.lastCap = f.bufferSize]
  IN IF HardFailure(writtenSize)
     THEN [g EXCEPT !.how = "failed", !.ret = <<>>]
     ELSE IF BufferTooSmall(writtenSize, f.bufferSize)
     THEN [g EXCEPT !.bufferSize = f.bufferSize * 2,
                    !.tries = f.tries + 1,
                    !.how = IF f.tries + 1 < ProcessFilenameMaxTries
                            THEN "running" ELSE "failed",
                    !.ret = <<>>]
     ELSE [g EXCEPT !.how = "returned",
                    !.ret = PathFilename(ModuleNameBuffer(r, writtenSize))]

(***************************************************************************)
(* runningProcessesIds.                                                    *)
(***************************************************************************)
RunningProcessesIdsMaxTries == 10
InitialIdsSize == 300

Pids == 0..MaxPid

\* the lists of ids the OS can report: no id twice
PidLists ==
  UNION { { s \in [1..n -> Pids] :
              \A i, j \in 1..n : i # j => s[i] # s[j] } : n \in 0..MaxProcs }

RpiIdle ==
  [ size |-> InitialIdsSize, tries |-> 0, ok |-> TRUE, bytesGiven |-> 0,
    bytesWritten |-> 0, calls |-> 0, lastCap |-> 0, reported |-> <<>>,
    ret |-> <<>>, how |-> "idle" ]

RpiStart == [RpiIdle EXCEPT !.how = "running"]

\* Answers of EnumProcesses: failure, more ids than the buffer holds, or a
\* list that leaves room in the buffer
EnumProcessesResponses(bytesGiven) ==
  { [ok |-> FALSE, full |-> FALSE, ids |-> <<>>],
    [ok |-> TRUE, full |-> TRUE, ids |-> <<>>] }
  \cup { [ok |-> TRUE, full |-> FALSE, ids |-> l] :
           l \in { m \in PidLists : Len(m) * SizeofDWORD < bytesGiven } }

EnumBytesWritten(r, bytesGiven) ==
  IF ~r.ok THEN 0
  ELSE IF r.full THEN bytesGiven
  ELSE Len(r.ids) * SizeofDWORD

\* entry k of the buffer after the call: the buffer was zero-filled (line
\* 190) and the OS wrote its ids at the front
EnumBufferAt(r, k) ==
  IF r.full THEN 1 + (k % MaxPid)
  ELSE IF k <= Len(r.ids) THEN r.ids[k] ELSE 0

\* line 206: nothing tells an exact fit from a buffer that is too small
EnumBufferFull(bytesWritten, bytesGiven) == bytesWritten = bytesGiven

\* line 213: the number of ids written
IdsCount_Bytes(bytesWritten) == bytesWritten
IdsCount(bytesWritten) == bytesWritten \div SizeofDWORD

\* one iteration of the loop of lines 188-215, and what follows the loop
runningProcessesIdsStep(f, r) ==
  LET bytesGiven == f.size * SizeofDWORD
      bytesWritten == EnumBytesWritten(r, bytesGiven)
      g == [f EXCEPT !.ok = r.ok, !.bytesGiven = bytesGiven,
                     !.bytesWritten = bytesWritten, !.calls = @ + 1,
                     !.lastCap = f.size, !.reported = r.ids]
  IN IF ~r.ok
     THEN [g EXCEPT !.how = "failed", !.ret = <<>>]
     ELSE IF EnumBufferFull(bytesWritten, bytesGiven)
     THEN [g EXCEPT !.size = f.size * 2,
                    !.tries = f.tries + 1,
                    !.how = IF f.tries + 1 < RunningProcessesIdsMaxTries
                            THEN "running" ELSE "failed",
                    !.ret = <<>>]
     ELSE LET count == IdsCount(bytesWritten)
          IN [g EXCEPT !.how = "returned",
                       !.ret = [k \in 1..count |-> EnumBufferAt(r, k)]]

(***************************************************************************)
(* runningProcesses and findOtherPid.                                      *)
(***************************************************************************)
Process(f, id) == [filename |-> f, pid |-> id]

\* Answers of OpenProcess: a handle, or NULL with a last error
OpenProcessResponses == { "ok", ERROR_ACCESS_DENIED, ERROR_INVALID_PARAMETER }

\* pids, i, v, h are the locals of runningProcesses; seen is bookkeeping:
\* for every id of pids visited so far, what the OS answered about it
RpIdle == [ pids |-> <<>>, i |-> 1, v |-> <<>>, h |-> HandlePtrEmpty,
            seen |-> <<>> ]

RpStart(pids) == [RpIdle EXCEPT !.pids = pids]

Seen(pid, opened, name) == [pid |-> pid, opened |-> opened, name |-> name]

\* line 227: the idle process is skipped
IsIdlePid_Never(pid) == FALSE
IsIdlePid(pid) == pid = 0

\* line 250: the record is kept when a filename came back
KeepsRecord(filename) == filename # <<>>

\* what GetCurrentProcessId can return
ThisPids == { 1, 2 }

\* selfHow is bookkeeping: how processFilename ended for the current process
FopIdle == [ thisPid |-> 0, filename |-> <<>>, processes |-> <<>>,
             ret |-> 0, selfHow |-> "idle", how |-> "idle" ]

\* line 288-289: the record is the other process
IsOtherProcess_AnyPid(p, filename, thisPid) == p.filename = filename
IsOtherProcess(p, filename, thisPid) ==
  p.filename = filename /\ p.pid # thisPid

\* lines 287-300: the scan of findOtherPid from record k on
RECURSIVE findOtherPidScan_Last(_, _, _, _)
findOtherPidScan_Last(processes, filename, thisPid, k) ==
  IF k > Len(processes) THEN 0
  ELSE LET later == findOtherPidScan_Last(processes, filename, thisPid, k + 1)
       IN IF later # 0 THEN later
          ELSE IF IsOtherProcess(processes[k], filename, thisPid)
          THEN processes[k].pid
          ELSE 0

RECURSIVE findOtherPidScan(_, _, _, _)
findOtherPidScan(processes, filename, thisPid, k) ==
  IF k > Len(processes) THEN 0
  ELSE IF IsOtherProcess(processes[k], filename, thisPid)
  THEN processes[k].pid
  ELSE findOtherPidScan(processes, filename, thisPid, k + 1)

\* line 456: findOtherPid found nothing
NoOtherProcess_Never(pid) == FALSE
NoOtherProcess(pid) == pid = 0

\* line 238: a failed OpenProcess is reported
LogsOpenFailure_Always(e) == TRUE
LogsOpenFailure(e) == e # ERROR_ACCESS_DENIED

\* lines 232-253: the HandlePtr h lives in the body of the loop; at the end
\* of an iteration it leaves its scope
IterationScopeExit_Leak(h, open) == open
IterationScopeExit(h, open) == HandlePtrRelease(h, open)

\* lines 271-279: the name the scan compares with
FilenameOrDefault_Keep(filename) == filename
FilenameOrDefault(filename) ==
  IF filename = <<>> THEN defaultName ELSE filename

(***************************************************************************)
(* tempDir, tempFile, dumpFile.                                            *)
(***************************************************************************)
TempFileMaxTries == 100

\* std::gmtime(&now): the broken-down times std::time(0) can stand for
Times ==
  { [tm_year |-> 124, tm_mon |-> 0, tm_mday |-> 15,
     tm_hour |-> 12, tm_min |-> 0, tm_sec |-> 0],
    [tm_year |-> 99, tm_mon |-> 11, tm_mday |-> 31,
     tm_hour |-> 23, tm_min |-> 59, tm_sec |-> 59] }

PrefixStem == <<"M","o","d","O","r","g","a","n","i","z","e","r","-">>
Ext == <<".","d","m","p">>

\* lines 333-343: "ModOrganizer-YYYYMMDDThhmmss"; the fill character is
\* still the blank when the year is written
DumpPrefix(tm) ==
  PrefixStem
  \o SetW(ToWString(1900 + tm.tm_year), 4, " ")
  \o SetW(ToWString(tm.tm_mon + 1), 2, "0")
  \o SetW(ToWString(tm.tm_mday), 2, "0") \o <<"T">>
  \o SetW(ToWString(tm.tm_hour), 2, "0")
  \o SetW(ToWString(tm.tm_min), 2, "0")
  \o SetW(ToWString(tm.tm_sec), 2, "0")

\* line 347: the first path to try
FirstPath(dir, prefix) == dir \o <<"\\">> \o prefix \o Ext

\* line 372: the path to try after attempt i failed
NextPath_SameCounter(dir, prefix, i) ==
  dir \o <<"\\">> \o prefix \o <<"-">> \o ToWString(i) \o Ext
NextPath(dir, prefix, i) ==
  dir \o <<"\\">> \o prefix \o <<"-">> \o ToWString(i + 1) \o Ext

CurrentDir == <<".">>
\* Answers of GetTempPathW: the empty string stands for a return of 0
TempPathResponses == { <<>>, <<"T",":","\\">> }

\* Answers of CreateFileW with CREATE_NEW: a handle, or INVALID_HANDLE_VALUE
\* with a last error
CreateFileResponses == { "created", ERROR_FILE_EXISTS, ERROR_ACCESS_DENIED }

\* dir, tm, prefix, path, i, h are the locals of tempFile; creates,
\* lastPath, answer, collisions and how are bookkeeping: the number of
\* CreateFileW calls of this pass, the path given to the last one and the
\* answer it got, the number of ERROR_FILE_EXISTS answers, and how the pass
\* ended
TfIdle ==
  [ dir |-> <<>>, tm |-> <<>>, prefix |-> <<>>, path |-> <<>>, i |-> 0,
    h |-> HandlePtrEmpty, creates |-> 0, lastPath |-> <<>>,
    answer |-> "none", collisions |-> 0, how |-> "idle" ]

TfStart(dir, tm) ==
  [TfIdle EXCEPT !.dir = dir, !.tm = tm, !.prefix = DumpPrefix(tm),
                 !.path = FirstPath(dir, DumpPrefix(tm)),
                 !.how = "running"]

\* line 349: the loop goes on to attempt i
TempFileGoesOn_Inclusive(i) == i <= TempFileMaxTries
TempFileGoesOn(i) == i < TempFileMaxTries

\* line 363: the error ends the pass
EndsPass_Never(e) == FALSE
EndsPass(e) == e # ERROR_FILE_EXISTS

\* one iteration of the loop of lines 349-373, and what follows the loop
tempFileStep(f, r) ==
  LET g == [f EXCEPT !.creates = @ + 1, !.lastPath = f.path,
                     !.answer = r,
                     !.collisions = IF r = ERROR_FILE_EXISTS
                                    THEN @ + 1 ELSE @]
  IN IF r = "created"
     THEN [g EXCEPT !.h = FileHandle, !.how = "returned"]
     ELSE IF EndsPass(r)
     THEN [g EXCEPT !.h = HandlePtrEmpty, !.how = "failed"]
     ELSE [g EXCEPT !.path = NextPath(f.dir, f.prefix, f.i),
                    !.i = f.i + 1,
                    !.h = HandlePtrEmpty,
                    !.how = IF TempFileGoesOn(f.i + 1)
                            THEN "running" ELSE "failed"]

\* lines 383 and 394: dumpFile returns the handle of the pass
DumpFileTakes_Never(h) == FALSE
DumpFileTakes(h) == h # INVALID_HANDLE_VALUE

\* h is the local of dumpFile and pass the directory it is trying ("cwd",
\* "temp"); the rest is bookkeeping: whether the pass in
\* the working directory ended without a file, whether tempDir was called
\* and what it returned, the CreateFileW calls made in the temporary
\* directory and the handle created there, and whether dumpFile returned
DfIdle ==
  [ h |-> HandlePtrEmpty, pass |-> "cwd", cwdFailed |-> FALSE,
    tempDirCalled |-> FALSE, tempDir |-> <<>>, tempCreates |-> 0,
    tempHandle |-> HandlePtrEmpty, creates |-> 0, how |-> "idle" ]

(***************************************************************************)
(* createMiniDump.                                                         *)
(***************************************************************************)
CoreDumpTypes == { "Mini", "Data", "Full" }

\* lines 412-426
MiniDumpFlags_DataIsFull(type) ==
  LET flags == { "MiniDumpNormal", "MiniDumpWithHandleData",
                 "MiniDumpWithUnloadedModules",
                 "MiniDumpWithProcessThreadData" }
  IN IF type = "Mini" THEN flags
     ELSE flags \cup { "MiniDumpWithFullMemory" }

MiniDumpFlags(type) ==
  LET flags == { "MiniDumpNormal", "MiniDumpWithHandleData",
                 "MiniDumpWithUnloadedModules",
                 "MiniDumpWithProcessThreadData" }
  IN IF type = "Data" THEN flags \cup { "MiniDumpWithDataSegs" }
     ELSE IF type = "Full" THEN flags \cup { "MiniDumpWithFullMemory" }
     ELSE flags

\* process, pid, file, flags, ret are the locals of createMiniDump; writes
\* counts the calls of MiniDumpWriteDump
CmdIdle ==
  [ process |-> NullHandle, pid |-> 0, file |-> HandlePtrEmpty,
    flags |-> {}, writes |-> 0, how |-> "idle" ]

\* entry is the entry point called, type its argument, pid and handle the
\* locals of coredumpOther, ret the value returned
CdIdle ==
  [ entry |-> "none", type |-> "Mini", pid |-> 0, handle |-> HandlePtrEmpty,
    ret |-> FALSE ]

(***************************************************************************)
(* State.                                                                  *)
(*   pc         where the program is: the OS call it makes next            *)
(*   cd         frame of coredump / coredumpOther                          *)
(*   fop        frame of findOtherPid                                      *)
(*   pf         frame of processFilename                                   *)
(*   rpi        frame of runningProcessesIds                               *)
(*   rp         frame of runningProcesses                                  *)
(*   tf, df     frames of tempFile and dumpFile                            *)
(*   cmd        frame of createMiniDump                                    *)
(*   live       the handles that are open                                  *)
(*   lastError  GetLastError()                                             *)
(*   cerr       what the last step wrote to std::wcerr                     *)
(*   os         what the OS did for the current call of an entry point:    *)
(*              the handles it gave out (opens), the CloseHandle calls it  *)
(*              got (closes), the files it created (files), and the        *)
(*              OpenProcess call of the last step (lastOpen)               *)
(* The frame of a function that returned is kept for one step.             *)
(***************************************************************************)
VARIABLES pc, cd, fop, pf, rpi, rp, tf, df, cmd, live, lastError, cerr, os

vars == <<pc, cd, fop, pf, rpi, rp, tf, df, cmd, live, lastError, cerr, os>>

\* the last step made no OpenProcess call
NoOpen == [where |-> "none", pid |-> 0, answer |-> "none"]

OsIdle == [opens |-> 0, closes |-> 0, files |-> {}, lastOpen |-> NoOpen]

\* the OpenProcess call of a step and its answer
OsOpenProcess(o, where, pid, r) ==
  [o EXCEPT !.lastOpen = [where |-> where, pid |-> pid, answer |-> r],
            !.opens = IF r = "ok" THEN @ + 1 ELSE @]

\* a step without OpenProcess
OsStep(o) == [o EXCEPT !.lastOpen = NoOpen]

Init ==
  /\ pc = "idle"
  /\ cd = CdIdle
  /\ fop = FopIdle
  /\ pf = PfIdle
  /\ rpi = RpiIdle
  /\ rp = RpIdle
  /\ tf = TfIdle
  /\ df = DfIdle
  /\ cmd = CmdIdle
  /\ live = {}
  /\ lastError = ERROR_SUCCESS
  /\ cerr = <<>>
  /\ os = OsIdle

\* lines 402-406: createMiniDump is entered and dumpFile starts its pass in
\* the working directory
EnterCreateMiniDump(process, pid, tm) ==
  /\ cmd' = [CmdIdle EXCEPT !.process = process, !.pid = pid,
                            !.how = "running"]
  /\ df' = [DfIdle EXCEPT !.how = "running"]
  /\ tf' = TfStart(CurrentDir, tm)
  /\ pc' = "tempFile"

\* lines 445-449
coredump ==
  /\ pc = "idle"
  /\ \E type \in CoreDumpTypes, pid \in ThisPids, tm \in Times :
       /\ cd' = [CdIdle EXCEPT !.entry = "coredump", !.type = type]
       /\ EnterCreateMiniDump(CurrentProcessPseudoHandle, pid, tm)
  /\ cerr' = <<>>
  /\ os' = OsStep(os)
  /\ UNCHANGED <<fop, pf, rpi, rp, live, lastError>>

\* lines 451-455 and 258-270: coredumpOther calls findOtherPid, which asks
\* for the name of the current process
coredumpOther ==
  /\ pc = "idle"
  /\ \E type \in CoreDumpTypes, thisPid \in ThisPids :
       /\ cd' = [CdIdle EXCEPT !.entry = "coredumpOther", !.type = type]
       /\ fop' = [FopIdle EXCEPT !.thisPid = thisPid, !.how = "running"]
  /\ pf' = PfStart(INVALID_HANDLE_VALUE)
  /\ pc' = "processFilename"
  /\ cerr' = <<>>
  /\ os' = OsStep(os)
  /\ UNCHANGED <<rpi, rp, tf, df, cmd, live, lastError>>

\* what processFilename writes to std::wcerr in the step that gave frame g
ProcessFilenameCerr(g) ==
  IF g.how # "failed" THEN <<>>
  ELSE IF g.writtenSize = 0
  THEN <<"formatSystemMessage", "failed to get filename">>
  ELSE <<"failed to get filename">>

\* lines 127-178: one call of GetModuleFileNameW / GetModuleBaseNameW.  When
\* processFilename returns, the caller goes on: findOtherPid (lines 270-282)
\* up to the first EnumProcesses, or runningProcesses (lines 249-253) up to
\* the next id.
processFilename ==
  /\ pc = "processFilename"
  /\ \E r \in ModuleNameResponses(pf.process, pf.bufferSize) :
       LET g == processFilenameStep(pf, r)
       IN /\ pf' = g
          /\ lastError' = IF r.kind = "fail" THEN ERROR_INVALID_PARAMETER
                          ELSE IF r.kind = "long"
                          THEN ERROR_INSUFFICIENT_BUFFER
                          ELSE lastError
          /\ IF g.how = "running"
             THEN /\ cerr' = <<>>
                  /\ os' = OsStep(os)
                  /\ UNCHANGED <<pc, fop, rpi, rp, live>>
             ELSE IF pf.process = INVALID_HANDLE_VALUE
             THEN /\ fop' = [fop EXCEPT
                               !.filename = FilenameOrDefault(g.ret),
                               !.selfHow = g.how]
                  /\ cerr' = ProcessFilenameCerr(g)
                             \o (IF g.ret = <<>>
                                 THEN <<"can't get current process filename">>
                                 ELSE <<>>)
                  /\ rpi' = RpiStart
                  /\ pc' = "runningProcessesIds"
                  /\ os' = OsStep(os)
                  /\ UNCHANGED <<rp, live>>
             ELSE /\ rp' = [rp EXCEPT
                              !.v = IF KeepsRecord(g.ret)
                                    THEN Append(@, Process(g.ret,
                                                           rp.pids[rp.i]))
                                    ELSE @,
                              !.h = HandlePtrEmpty,
                              !.i = @ + 1,
                              !.seen = Append(@, Seen(rp.pids[rp.i], TRUE,
                                                      g.ret))]
                  /\ live' = IterationScopeExit(rp.h, live)
                  /\ os' = [OsStep(os) EXCEPT
                              !.closes = @ + Cardinality(
                                   live \ IterationScopeExit(rp.h, live))]
                  /\ cerr' = ProcessFilenameCerr(g)
                  /\ pc' = "runningProcesses"
                  /\ UNCHANGED <<fop, rpi>>
  /\ UNCHANGED <<cd, tf, df, cmd>>

\* lines 180-219: one call of EnumProcesses.  When runningProcessesIds
\* returns, runningProcesses starts its loop over the ids (lines 223-226).
runningProcessesIds ==
  /\ pc = "runningProcessesIds"
  /\ \E r \in EnumProcessesResponses(rpi.size * SizeofDWORD) :
       LET g == runningProcessesIdsStep(rpi, r)
       IN /\ rpi' = g
          /\ lastError' = IF r.ok THEN lastError ELSE ERROR_ACCESS_DENIED
          /\ cerr' = IF g.how # "failed" THEN <<>>
                     ELSE IF ~g.ok
                     THEN <<"failed to enumerate processes">>
                     ELSE <<"too many processes to enumerate">>
          /\ IF g.how = "running"
             THEN UNCHANGED <<pc, rp>>
             ELSE /\ rp' = RpStart(g.ret)
                  /\ pc' = "runningProcesses"
  /\ pf' = PfIdle
  /\ os' = OsStep(os)
  /\ UNCHANGED <<cd, fop, tf, df, cmd, live>>

\* lines 226-249: the next id of the list: skipped when it is 0, else
\* OpenProcess is called; with a handle processFilename is called for it
runningProcesses ==
  /\ pc = "runningProcesses"
  /\ rp.i <= Len(rp.pids)
  /\ LET pid == rp.pids[rp.i]
     IN IF IsIdlePid(pid)
        THEN /\ rp' = [rp EXCEPT !.i = @ + 1,
                                 !.seen = Append(@, Seen(pid, FALSE, <<>>))]
             /\ pf' = PfIdle
             /\ cerr' = <<>>
             /\ os' = OsStep(os)
             /\ UNCHANGED <<pc, live, lastError>>
        ELSE \E r \in OpenProcessResponses :
               /\ os' = OsOpenProcess(os, "runningProcesses", pid, r)
               /\ IF r = "ok"
                  THEN /\ rp' = [rp EXCEPT !.h = ProcHandle(pid)]
                       /\ live' = live \cup { ProcHandle(pid) }
                       /\ pf' = PfStart(ProcHandle(pid))
                       /\ pc' = "processFilename"
                       /\ cerr' = <<>>
                       /\ UNCHANGED lastError
                  ELSE /\ rp' = [rp EXCEPT
                                   !.i = @ + 1,
                                   !.seen = Append(@,
                                                   Seen(pid, FALSE, <<>>))]
                       /\ lastError' = r
                       /\ cerr' = IF LogsOpenFailure(r)
                                  THEN <<"failed to open process">>
                                  ELSE <<>>
                       /\ pf' = PfIdle
                       /\ UNCHANGED <<pc, live>>
  /\ rpi' = RpiIdle
  /\ UNCHANGED <<cd, fop, tf, df, cmd>>

\* lines 255, 282-300 and 455-461: runningProcesses returns its list,
\* findOtherPid scans it and returns, coredumpOther looks at the result
findOtherPid ==
  /\ pc = "runningProcesses"
  /\ rp.i > Len(rp.pids)
  /\ LET pid == findOtherPidScan(rp.v, fop.filename, fop.thisPid, 1)
     IN /\ fop' = [fop EXCEPT !.processes = rp.v, !.ret = pid,
                              !.how = "returned"]
        /\ cd' = [cd EXCEPT !.pid = pid, !.ret = FALSE]
        /\ pc' = IF NoOtherProcess(pid) THEN "done" ELSE "coredumpOther"
        /\ cerr' = IF NoOtherProcess(pid)
                   THEN <<"no other process found">> ELSE <<>>
  /\ rp' = RpIdle
  /\ pf' = PfIdle
  /\ rpi' = RpiIdle
  /\ os' = OsStep(os)
  /\ UNCHANGED <<tf, df, cmd, live, lastError>>

\* lines 463-476: coredumpOther opens the process found
OpenOtherProcess ==
  /\ pc = "coredumpOther"
  /\ \E r \in OpenProcessResponses, tm \in Times :
       LET handle == IF r = "ok" THEN ProcHandle(cd.pid) ELSE NullHandle
       IN /\ os' = OsOpenProcess(os, "coredumpOther", cd.pid, r)
          /\ live' = IF r = "ok" THEN live \cup { handle } ELSE live
          /\ lastError' = IF r = "ok" THEN lastError ELSE r
          /\ IF HandlePtrBool(handle)
             THEN /\ cd' = [cd EXCEPT !.handle = handle]
                  /\ EnterCreateMiniDump(handle, cd.pid, tm)
                  /\ cerr' = <<>>
             ELSE /\ cd' = [cd EXCEPT !.ret = FALSE]
                  /\ cerr' = <<"failed to open process">>
                  /\ pc' = "done"
                  /\ UNCHANGED <<tf, df, cmd>>
  /\ fop' = FopIdle
  /\ UNCHANGED <<pf, rpi, rp>>

\* lines 406-426 and the callers' return: dumpFile returned `file` to
\* createMiniDump.  Without a file createMiniDump returns false, and the
\* HandlePtr of coredumpOther leaves its scope; with one the flags are put
\* together for MiniDumpWriteDump.  open and o are the open handles and the
\* record of the OS after the CreateFileW of the step.
AfterDumpFile(file, open, err, o) ==
  IF ~HandlePtrBool(file)
  THEN /\ cmd' = [cmd EXCEPT !.file = file, !.how = "failed"]
       /\ cd' = [cd EXCEPT !.ret = FALSE, !.handle = HandlePtrEmpty]
       /\ live' = HandlePtrRelease(cd.handle, HandlePtrRelease(file, open))
       /\ os' = [o EXCEPT !.closes = @ + HandlePtrCloses(file)
                                       + HandlePtrCloses(cd.handle)]
       /\ cerr' = err \o <<"nowhere to write the dump file">>
       /\ pc' = "done"
  ELSE /\ cmd' = [cmd EXCEPT !.file = file,
                             !.flags = MiniDumpFlags(cd.type)]
       /\ live' = open
       /\ os' = o
       /\ cerr' = err
       /\ pc' = "MiniDumpWriteDump"
       /\ UNCHANGED cd

\* what tempFile writes to std::wcerr in the step that gave frame g
TempFileCerr(g) ==
  IF g.how # "failed" THEN <<>>
  ELSE IF g.answer # ERROR_FILE_EXISTS THEN <<"failed to create dump file">>
  ELSE <<"can't create dump file, ran out of filenames">>

\* lines 322-377: one call of CreateFileW.  When the pass ends dumpFile goes
\* on (lines 382-399): it returns the handle of the pass, or calls tempDir
\* (lines 303-320) and starts the pass in the temporary directory.
tempFile ==
  /\ pc = "tempFile"
  /\ \E r \in CreateFileResponses, td \in TempPathResponses, tm \in Times :
       LET g == tempFileStep(tf, r)
           open == IF r = "created" THEN live \cup { FileHandle } ELSE live
           o == IF r = "created"
                THEN [OsStep(os) EXCEPT !.opens = @ + 1,
                                        !.files = @ \cup { tf.path }]
                ELSE OsStep(os)
           d == [df EXCEPT !.creates = @ + 1]
           err == TempFileCerr(g)
       IN /\ lastError' = IF r = "created" THEN lastError ELSE r
          /\ IF g.how = "running"
             THEN /\ tf' = g
                  /\ df' = d
                  /\ cerr' = err
                  /\ os' = o
                  /\ UNCHANGED <<pc, cd, cmd, live>>
             ELSE IF df.pass = "cwd"
             THEN IF DumpFileTakes(g.h)
                  THEN /\ tf' = g
                       /\ df' = [d EXCEPT !.h = g.h,
                                          !.cwdFailed = g.how = "failed",
                                          !.how = "returned"]
                       /\ AfterDumpFile(g.h, open, err, o)
                  ELSE IF td = <<>>
                  THEN /\ tf' = g
                       /\ df' = [d EXCEPT !.h = g.h, !.cwdFailed = TRUE,
                                          !.tempDirCalled = TRUE,
                                          !.how = "returned"]
                       /\ AfterDumpFile(HandlePtrEmpty, open,
                                        err \o <<"failed to get temp path">>,
                                        o)
                  ELSE /\ tf' = TfStart(td, tm)
                       /\ df' = [d EXCEPT !.h = g.h, !.pass = "temp",
                                          !.cwdFailed = TRUE,
                                          !.tempDirCalled = TRUE,
                                          !.tempDir = td]
                       /\ cerr' = err
                       /\ live' = open
                       /\ os' = o
                       /\ UNCHANGED <<pc, cd, cmd>>
             ELSE /\ tf' = g
                  /\ df' = [d EXCEPT !.h = g.h,
                                     !.tempCreates = g.creates,
                                     !.tempHandle = g.h,
                                     !.how = "returned"]
                  /\ AfterDumpFile(IF DumpFileTakes(g.h) THEN g.h
                                   ELSE HandlePtrEmpty, open, err, o)
  /\ UNCHANGED <<fop, pf, rpi, rp>>

\* Answers of MiniDumpWriteDump
MiniDumpWriteDumpResponses == BOOLEAN

\* lines 431-441: what createMiniDump returns after the snapshot call
CreateMiniDumpReturns_True(ret) == TRUE
CreateMiniDumpReturns(ret) == ret

\* lines 428-442 and the callers' return: the snapshot is written, the
\* HandlePtrs of the file and of the other process leave their scope
MiniDumpWriteDump ==
  /\ pc = "MiniDumpWriteDump"
  /\ \E ret \in MiniDumpWriteDumpResponses :
       /\ cmd' = [cmd EXCEPT !.writes = @ + 1,
                             !.how = IF ret THEN "returned" ELSE "failed"]
       /\ cd' = [cd EXCEPT !.ret = CreateMiniDumpReturns(ret),
                           !.handle = HandlePtrEmpty]
       /\ lastError' = IF ret THEN lastError ELSE ERROR_INVALID_PARAMETER
       /\ cerr' = IF ret THEN <<>> ELSE <<"failed to write mini dump">>
  /\ live' = HandlePtrRelease(cd.handle, HandlePtrRelease(cmd.file, live))
  /\ os' = [OsStep(os) EXCEPT !.closes = @ + HandlePtrCloses(cmd.file)
                                           + HandlePtrCloses(cd.handle)]
  /\ pc' = "done"
  /\ UNCHANGED <<fop, pf, rpi, rp, tf, df>>

\* the entry point has returned; the next call starts from scratch
Return ==
  /\ pc = "done"
  /\ pc' = "idle"
  /\ cd' = CdIdle
  /\ fop' = FopIdle
  /\ pf' = PfIdle
  /\ rpi' = RpiIdle
  /\ rp' = RpIdle
  /\ tf' = TfIdle
  /\ df' = DfIdle
  /\ cmd' = CmdIdle
  /\ cerr' = <<>>
  /\ os' = OsIdle
  /\ UNCHANGED <<live, lastError>>

Next ==
  \/ coredump
  \/ coredumpOther
  \/ processFilename
  \/ runningProcessesIds
  \/ runningProcesses
  \/ findOtherPid
  \/ OpenOtherProcess
  \/ tempFile
  \/ MiniDumpWriteDump
  \/ Return

Spec == Init /\ [][Next]_vars

(***************************************************************************)
(* Properties.                                                             *)
(***************************************************************************)

\* the growing-buffer queries that have ended
PfEnded == pf.how \in { "returned", "failed" }
RpiEnded == rpi.how \in { "returned", "failed" }

\* C1: whenever the pass of tempFile in the working directory ends without
\* a file, dumpFile calls tempDir, with a non-empty temporary directory it
\* attempts a creation there, and it returns the handle created there when
\* that creation succeeds.
C1_FallsBackToTempDir ==
  (df.how = "returned" /\ df.cwdFailed) =>
     /\ df.tempDirCalled
     /\ df.tempDir # <<>> => df.tempCreates > 0
     /\ df.tempHandle = FileHandle => cmd.file = FileHandle

\* C2 as stated: a growing-buffer query ends either with a result shorter
\* than the capacity of the last buffer, or in failure after exactly 10
\* attempts.
C2_EndsShortOrAfterTen ==
  /\ PfEnded =>
       \/ pf.how = "returned" /\ Len(pf.ret) < pf.lastCap
       \/ pf.how = "failed" /\ pf.calls = 10
  /\ RpiEnded =>
       \/ rpi.how = "returned" /\ Len(rpi.ret) < rpi.lastCap
       \/ rpi.how = "failed" /\ rpi.calls = 10

\* C2 (amended): a growing-buffer query ends either with a result shorter
\* than the capacity of the last buffer, or in failure: after exactly 10
\* attempts when every attempt filled its buffer, or at the attempt, the
\* 10th at the latest, on which the OS reported a hard failure.
C2_EndsShortOrFailed ==
  /\ PfEnded =>
       \/ pf.how = "returned" /\ Len(pf.ret) < pf.lastCap
       \/ pf.how = "failed" /\ pf.calls = 10
            /\ pf.writtenSize >= pf.lastCap
       \/ pf.how = "failed" /\ pf.calls \in 1..10 /\ pf.writtenSize = 0
  /\ RpiEnded =>
       \/ rpi.how = "returned" /\ Len(rpi.ret) < rpi.lastCap
       \/ rpi.how = "failed" /\ rpi.calls = 10 /\ rpi.ok
            /\ rpi.bytesWritten = rpi.bytesGiven
       \/ rpi.how = "failed" /\ rpi.calls \in 1..10 /\ ~rpi.ok

\* a query for the name of another process gave up after 10 full buffers
C2_Witness ==
  /\ pf.how = "failed" /\ pf.calls = 10 /\ pf.writtenSize # 0
  /\ pf.process # INVALID_HANDLE_VALUE

\* C3: when the OS call of a growing-buffer query reports a hard failure
\* (written size 0, EnumProcesses false), the query ends there: it returns
\* the empty result, its buffer size is the one of that call, and its count
\* of OS calls does not grow any more.
C3_HardFailureEndsQuery ==
  /\ [](/\ (pf.calls > 0 /\ pf.writtenSize = 0) =>
             /\ pf.how = "failed"
             /\ pf.ret = <<>>
             /\ pf.bufferSize = pf.lastCap
        /\ (rpi.calls > 0 /\ ~rpi.ok) =>
             /\ rpi.how = "failed"
             /\ rpi.ret = <<>>
             /\ rpi.size = rpi.lastCap)
  /\ [][/\ (pf.calls > 0 /\ pf.writtenSize = 0) => pf'.calls = 0
        /\ (rpi.calls > 0 /\ ~rpi.ok) => rpi'.calls = 0]_vars

\* a hard failure after the buffer had grown
C3_Witness ==
  pf.calls > 1 /\ pf.writtenSize = 0 /\ pf.process # INVALID_HANDLE_VALUE

\* C4 as stated: runningProcessesIds returns the empty failure result only
\* when EnumProcesses failed; in every other run it returns the ids the OS
\* reported.
C4_FailsOnlyOnHardFailure ==
  (RpiEnded /\ rpi.ok) => rpi.how = "returned" /\ rpi.ret = rpi.reported

\* C4 (amended): runningProcessesIds returns the empty failure result only
\* when EnumProcesses failed or when each of its 10 calls filled the buffer
\* completely; in every other run it returns the ids the OS reported.
C4_FailsOnHardFailureOrTenFull ==
  RpiEnded =>
    IF ~rpi.ok \/ (rpi.calls = 10 /\ rpi.bytesWritten = rpi.bytesGiven)
    THEN rpi.how = "failed" /\ rpi.ret = <<>>
    ELSE rpi.how = "returned" /\ rpi.ret = rpi.reported

\* EnumProcesses succeeded 10 times and filled the buffer each time
C4_Witness ==
  /\ rpi.how = "failed" /\ rpi.ok /\ rpi.calls = 10
  /\ rpi.bytesWritten = rpi.bytesGiven

\* the records of the list findOtherPid scanned that have the name it
\* compares with and another pid than the caller's
Siblings ==
  { k \in 1..Len(fop.processes) :
      /\ fop.processes[k].filename = fop.filename
      /\ fop.processes[k].pid # fop.thisPid }

\* C5: findOtherPid returns 0 exactly when the list of runningProcesses has
\* no record with the caller's filename (the name findOtherPid compares
\* with) and a pid other than the caller's; a non-zero result is the pid of
\* such a record and is not the caller's pid.
C5_ZeroIffNoSibling ==
  fop.how = "returned" =>
    /\ fop.ret = 0 <=> Siblings = {}
    /\ fop.ret # 0 =>
         /\ \E k \in Siblings : fop.processes[k].pid = fop.ret
         /\ fop.ret # fop.thisPid

\* the caller's own record, with the same name, comes before the sibling
C5_Witness ==
  /\ fop.how = "returned"
  /\ fop.ret # 0
  /\ \E j \in 1..Len(fop.processes) :
       /\ fop.processes[j].pid = fop.thisPid
       /\ fop.processes[j].filename = fop.filename
       /\ \A k \in Siblings : j < k

\* C6: with two or more matching records findOtherPid returns the pid of
\* the one that comes first in the list.
C6_FirstSiblingWins ==
  (fop.how = "returned" /\ Cardinality(Siblings) >= 2) =>
    \E k \in Siblings :
      /\ \A j \in Siblings : k <= j
      /\ fop.ret = fop.processes[k].pid

\* two siblings, the one with the larger pid listed first
C6_Witness ==
  /\ fop.how = "returned"
  /\ Cardinality(Siblings) >= 2
  /\ \E j, k \in Siblings :
       j < k /\ fop.processes[j].pid > fop.processes[k].pid

\* the records runningProcesses is to hold for the ids it has visited: one
\* for every id that is not 0, was opened and got a non-empty filename
RECURSIVE ExpectedRecords(_)
ExpectedRecords(seen) ==
  IF seen = <<>> THEN <<>>
  ELSE LET s == seen[Len(seen)]
           front == ExpectedRecords(SubSeq(seen, 1, Len(seen) - 1))
       IN IF s.pid # 0 /\ s.opened /\ s.name # <<>>
          THEN Append(front, [filename |-> s.name, pid |-> s.pid])
          ELSE front

\* C7: runningProcesses holds, in the order of the enumeration, exactly one
\* record for each enumerated id that is not 0, could be opened and got a
\* non-empty filename; no record has pid 0 or an empty filename.
C7_RecordsOfOpenedNamedPids ==
  pc = "runningProcesses" =>
    /\ Len(rp.seen) = rp.i - 1
    /\ \A k \in 1..Len(rp.seen) : rp.seen[k].pid = rp.pids[k]
    /\ rp.v = ExpectedRecords(rp.seen)
    /\ \A k \in 1..Len(rp.v) :
         rp.v[k].pid # 0 /\ rp.v[k].filename # <<>>

\* the whole list was visited: it had the id 0, an id that gave no record
\* and one that gave a record
C7_Witness ==
  /\ pc = "runningProcesses"
  /\ rp.i > Len(rp.pids)
  /\ \E k \in 1..Len(rp.pids) : rp.pids[k] = 0
  /\ Len(rp.v) >= 1
  /\ Len(rp.v) + 1 < Len(rp.pids)

\* "YYYYMMDDThhmmss" of the times of Times, written out
Stamp(tm) ==
  IF tm.tm_year = 124
  THEN <<"2","0","2","4","0","1","1","5","T","1","2","0","0","0","0">>
  ELSE <<"1","9","9","9","1","2","3","1","T","2","3","5","9","5","9">>

\* the decimal numerals of 1..100, written by digit
Numeral(k) ==
  IF k = 100 THEN <<"1","0","0">>
  ELSE IF k >= 10 THEN <<DigitChar(k \div 10), DigitChar(k % 10)>>
  ELSE <<DigitChar(k)>>

\* the name a pass is to try after k collisions
NameAfter(dir, tm, k) ==
  dir \o <<"\\">> \o PrefixStem \o Stamp(tm)
  \o (IF k = 0 THEN <<>> ELSE <<"-">> \o Numeral(k)) \o Ext

\* C8: in one pass of tempFile the names tried carry the timestamp of the
\* pass; the first has no suffix, the one tried after the k-th collision has
\* the suffix "-k"; after 100 collisions the pass fails without a file and
\* without another attempt.
C8_NamesOfAPass ==
  /\ [](/\ tf.creates > 0 =>
             /\ tf.lastPath = NameAfter(tf.dir, tf.tm, tf.creates - 1)
             /\ tf.collisions \in { tf.creates - 1, tf.creates }
        /\ tf.collisions <= 100
        /\ tf.collisions = 100 =>
             tf.how = "failed" /\ tf.h = HandlePtrEmpty /\ tf.creates = 100)
  /\ [][tf'.creates = tf.creates + 1 =>
          tf'.tm = tf.tm /\ tf'.dir = tf.dir]_vars

\* a pass that collided 100 times
C8_Witness == tf.collisions = 100 /\ tf.how = "failed"

\* the last CreateFileW of the pass failed with another error than
\* ERROR_FILE_EXISTS
PassAborted ==
  tf.creates > 0 /\ tf.answer \notin { "created", ERROR_FILE_EXISTS }

\* C9: when a CreateFileW of tempFile fails with another error than
\* ERROR_FILE_EXISTS, the pass ends there without a handle and makes no
\* further CreateFileW call.
C9_OtherErrorEndsPass ==
  /\ [](PassAborted => tf.how = "failed" /\ tf.h = HandlePtrEmpty)
  /\ [][PassAborted => tf'.creates = 0 \/ tf'.dir # tf.dir]_vars

\* the error came after some collisions
C9_Witness == PassAborted /\ tf.collisions >= 2

\* the flag set of the specification for each request type
BaselineFlags ==
  { "MiniDumpNormal", "MiniDumpWithHandleData",
    "MiniDumpWithUnloadedModules", "MiniDumpWithProcessThreadData" }

\* C10: the flags createMiniDump passes to MiniDumpWriteDump are the
\* baseline for Mini, the baseline and the data segments for Data, the
\* baseline and the full memory for Full.
C10_FlagsOfType ==
  (pc = "MiniDumpWriteDump" \/ cmd.writes > 0) =>
    /\ cd.type = "Mini" => cmd.flags = BaselineFlags
    /\ cd.type = "Data" =>
         cmd.flags = BaselineFlags \cup { "MiniDumpWithDataSegs" }
    /\ cd.type = "Full" =>
         cmd.flags = BaselineFlags \cup { "MiniDumpWithFullMemory" }

\* MiniDumpWriteDump was called for a Data dump
C10_Witness == cmd.writes > 0 /\ cd.type = "Data"

\* C11: createMiniDump returns true exactly when a dump file was created and
\* MiniDumpWriteDump succeeded; without a file it returns false and
\* MiniDumpWriteDump is not called; MiniDumpWriteDump is called only with
\* the handle of a file this call created, while that handle is open.
C11_TrueIffFileAndSnapshot ==
  /\ (pc = "done" /\ cmd.how # "idle") =>
       /\ cd.ret <=> (os.files # {} /\ cmd.writes = 1
                        /\ cmd.how = "returned")
       /\ os.files = {} => (~cd.ret /\ cmd.writes = 0)
  /\ (pc = "MiniDumpWriteDump" \/ cmd.writes > 0) =>
       /\ cmd.file = FileHandle
       /\ os.files # {}
       /\ tf.answer = "created"
  /\ pc = "MiniDumpWriteDump" => cmd.file \in live

\* no file could be created and createMiniDump returned false
C11_Witness ==
  pc = "done" /\ cmd.how = "failed" /\ os.files = {} /\ tf.creates > 1

\* coredumpOther has returned without a sibling that was opened: findOtherPid
\* returned 0, or the OpenProcess of coredumpOther failed in the last step
NoSiblingOpened ==
  /\ pc = "done"
  /\ cd.entry = "coredumpOther"
  /\ \/ fop.how = "returned" /\ fop.ret = 0
     \/ os.lastOpen.where = "coredumpOther" /\ os.lastOpen.answer # "ok"

\* C12: coredumpOther returns false without a capture when findOtherPid
\* returns 0 or the process found cannot be opened: no CreateFileW call, no
\* file, no MiniDumpWriteDump call; CreateFileW is called only while the
\* handle of the process found is open.
C12_NoCaptureWithoutSibling ==
  /\ NoSiblingOpened =>
       /\ ~cd.ret
       /\ df.creates = 0 /\ tf.creates = 0
       /\ os.files = {}
       /\ cmd.writes = 0 /\ cmd.how = "idle"
  /\ (cd.entry = "coredumpOther" /\ pc \in { "tempFile", "MiniDumpWriteDump" })
       => cd.pid # 0 /\ ProcHandle(cd.pid) \in live
  /\ (cd.entry = "coredumpOther" /\ df.creates > 0) => os.opens >= 1

\* the process found could not be opened
C12_Witness ==
  /\ NoSiblingOpened
  /\ cd.pid # 0
  /\ os.lastOpen.answer = ERROR_ACCESS_DENIED

\* the last step wrote the line that reports a failed OpenProcess
OpenFailureLogged ==
  \E k \in 1..Len(cerr) : cerr[k] = "failed to open process"

\* C13 as stated: an OpenProcess that fails with ERROR_ACCESS_DENIED writes
\* no error line, wherever it is called.
C13_DeniedOpenNeverLogged ==
  os.lastOpen.answer = ERROR_ACCESS_DENIED => ~OpenFailureLogged

\* C13 (amended): an OpenProcess that fails with ERROR_ACCESS_DENIED writes
\* no error line when runningProcesses calls it (with another error it
\* writes one); the OpenProcess of coredumpOther for the process found
\* writes the error line whatever the error.
C13_DeniedOpenLoggedOnlyByCoredumpOther ==
  /\ os.lastOpen.where = "runningProcesses" =>
       /\ os.lastOpen.answer = ERROR_ACCESS_DENIED => cerr = <<>>
       /\ os.lastOpen.answer = ERROR_INVALID_PARAMETER => OpenFailureLogged
  /\ (os.lastOpen.where = "coredumpOther" /\ os.lastOpen.answer # "ok")
       => OpenFailureLogged

\* runningProcesses was denied a process after it had listed another one
C13_Witness ==
  /\ os.lastOpen.where = "runningProcesses"
  /\ os.lastOpen.answer = ERROR_ACCESS_DENIED
  /\ Len(rp.v) >= 1

\* the process handles that are open
LiveProcessHandles == { h \in live : \E p \in Pids : h = ProcHandle(p) }

\* C14: when coredump or coredumpOther returns, every handle the OS gave
\* out during the call (OpenProcess, CreateFileW) has been closed, and
\* closed once: there are as many CloseHandle calls as handles given out and
\* never more; while runningProcesses runs at most one process handle is
\* open, and none between two iterations.
C14_HandlesReleasedOnce ==
  /\ os.closes <= os.opens
  /\ Cardinality(live) = os.opens - os.closes
  /\ pc \in { "done", "idle" } => live = {}
  /\ pc = "done" => os.closes = os.opens
  /\ pc = "runningProcesses" => live = {}
  /\ (pc = "processFilename" /\ pf.process # INVALID_HANDLE_VALUE) =>
       /\ live = { pf.process }
       /\ Cardinality(LiveProcessHandles) <= 1

\* coredumpOther returned after a failed snapshot: the handles of the
\* enumeration, of the sibling and of the file were given out and closed
C14_Witness ==
  /\ pc = "done"
  /\ cd.entry = "coredumpOther"
  /\ cmd.how = "failed" /\ cmd.writes = 1
  /\ os.opens >= 3
  /\ os.closes = os.opens

\* the steps a capture can still take: CreateFileW calls left in the pass,
\* those of the pass in the temporary directory, and MiniDumpWriteDump
CaptureSteps ==
  IF pc = "tempFile"
  THEN (100 - tf.creates) + (IF df.pass = "cwd" THEN 100 ELSE 0) + 1
  ELSE IF pc = "MiniDumpWriteDump" THEN 1
  ELSE 0

\* the steps the enumeration can still take from id i of a list of n ids:
\* an OpenProcess and 10 name queries for each id, the scan, the OpenProcess
\* of coredumpOther and a whole capture
EnumerationSteps(n, i) == 11 * (n - i + 1) + 203

\* the largest number of steps the current call can still take
StepsLeft ==
  CASE pc = "tempFile" \/ pc = "MiniDumpWriteDump" -> CaptureSteps
    [] pc = "coredumpOther" -> 202
    [] pc = "runningProcesses" -> EnumerationSteps(Len(rp.pids), rp.i)
    [] pc = "processFilename" /\ pf.process # INVALID_HANDLE_VALUE ->
         (10 - pf.calls) + EnumerationSteps(Len(rp.pids), rp.i + 1)
    [] pc = "runningProcessesIds" ->
         (10 - rpi.calls) + 1 + EnumerationSteps(MaxProcs, 1)
    [] pc = "processFilename" /\ pf.process = INVALID_HANDLE_VALUE ->
         (10 - pf.calls) + 11 + EnumerationSteps(MaxProcs, 1)
    [] OTHER -> 0

\* C15: coredump and coredumpOther terminate whatever the OS answers: every
\* step of a call leaves fewer steps to take; a growing-buffer query makes
\* at most 10 OS calls, with a capacity of at most 2^9 times the initial one
\* (a byte size far below 2^32); a pass of tempFile makes at most 100
\* CreateFileW calls and a capture at most 200.
C15_BoundedAndTerminating ==
  /\ [](/\ pf.calls <= 10
        /\ pf.lastCap <= 260 * 512
        /\ pf.bufferSize <= 260 * 1024
        /\ rpi.calls <= 10
        /\ rpi.lastCap <= 300 * 512
        /\ rpi.bytesGiven <= 300 * 512 * 4
        /\ rpi.size <= 300 * 1024
        /\ tf.creates <= 100
        /\ df.creates <= 200
        /\ StepsLeft >= 0)
  /\ [][pc \notin { "idle", "done" } => StepsLeft' < StepsLeft]_vars

\* a name query was made with the largest buffer and a pass of tempFile
\* used its last attempt
C15_Witness ==
  \/ pf.calls = 10 /\ pf.lastCap = 260 * 512
  \/ tf.creates = 100


\* the records of the scanned list named ModOrganizer.exe with another pid
\* than the caller's
DefaultSiblings ==
  { k \in 1..Len(fop.processes) :
      /\ fop.processes[k].filename =
           <<"M","o","d","O","r","g","a","n","i","z","e","r",".","e","x","e">>
      /\ fop.processes[k].pid # fop.thisPid }

\* C16: when processFilename returns empty for the current process,
\* findOtherPid still lists the processes and returns the pid of the first
\* record named ModOrganizer.exe with a pid other than the caller's, or 0
\* when there is none.
C16_DefaultNameWhenSelfFails ==
  (fop.how = "returned" /\ fop.selfHow = "failed") =>
    IF DefaultSiblings = {}
    THEN fop.ret = 0
    ELSE \E k \in DefaultSiblings :
           /\ \A j \in DefaultSiblings : k <= j
           /\ fop.ret = fop.processes[k].pid

\* the own name was not resolved and the second record named
\* ModOrganizer.exe is the caller's sibling, behind a record of another name
C16_Witness ==
  /\ fop.how = "returned"
  /\ fop.selfHow = "failed"
  /\ fop.ret # 0
  /\ Len(fop.processes) >= 2
  /\ \E k \in DefaultSiblings : k >= 2


\* the letters of a file name, in upper and in lower case
UpperLetters ==
  <<"A","B","C","D","E","F","G","H","I","J","K","L","M",
    "N","O","P","Q","R","S","T","U","V","W","X","Y","Z">>
LowerLetters ==
  <<"a","b","c","d","e","f","g","h","i","j","k","l","m",
    "n","o","p","q","r","s","t","u","v","w","x","y","z">>

\* the character folded to lower case
FoldChar(c) ==
  IF \E n \in 1..26 : UpperLetters[n] = c
  THEN LowerLetters[CHOOSE n \in 1..26 : UpperLetters[n] = c]
  ELSE c

\* the OS filename comparison: the names differ in letter case at most
SameFileName(a, b) ==
  /\ Len(a) = Len(b)
  /\ \A n \in 1..Len(a) : FoldChar(a[n]) = FoldChar(b[n])

\* C17: findOtherPid finds a record whose filename is the caller's under
\* the OS filename comparison (letter case ignored) and whose pid is not
\* the caller's.
C17_MatchIgnoresCase ==
  fop.how = "returned" =>
    ((\E k \in 1..Len(fop.processes) :
        /\ SameFileName(fop.processes[k].filename, fop.filename)
        /\ fop.processes[k].pid # fop.thisPid)
     => fop.ret # 0)


\* C18: the counter of tempFile goes up to MaxTries: a pass gives up for
\* want of names only after it tried the name with the suffix "-100", so
\* every suffix from "-1" to "-100" was attempted.
C18_CounterReachesMaxTries ==
  (tf.how = "failed" /\ tf.answer = ERROR_FILE_EXISTS) =>
    /\ tf.lastPath = NameAfter(tf.dir, tf.tm, 100)
    /\ tf.creates = 101


\* C19: a call of coredump or coredumpOther creates at most one file: after
\* a CreateFileW that created one, no CreateFileW follows in either
\* directory, and no step of the call removes the file, which is still
\* there when the call returns after a MiniDumpWriteDump that failed.
C19_AtMostOneFile ==
  /\ [](/\ Cardinality(os.files) <= 1
        /\ (pc = "done" /\ cmd.writes = 1) => Cardinality(os.files) = 1
        /\ (pc = "done" /\ cmd.writes = 0) => os.files = {})
  /\ [][/\ os.files # {} => ~(df'.creates > df.creates)
        /\ pc' # "idle" => os.files \subseteq os'.files]_vars

\* the file was created after collisions and the snapshot then failed
C19_Witness ==
  /\ pc = "done"
  /\ cmd.writes = 1
  /\ cmd.how = "failed"
  /\ ~cd.ret
  /\ Cardinality(os.files) = 1
  /\ \E p \in os.files :
       \A tm \in Times : p # NameAfter(CurrentDir, tm, 0)

====
